---- MODULE Spec2Model ----
(***************************************************************************)
(* The simulated serial stream of src/Arduino.cpp (class Stream): the      *)
(* output log fakeBuffer/cursor, the input buffer                          *)
(* inputBuffer/inputCursor/inputLength and the optional SITL socket.       *)
(*                                                                         *)
(* Every operation is one action; besides the stream's fields it records   *)
(* what a caller observes of it (op, arg, ret, out) and what it did to the *)
(* socket (sockCalls).  The socket itself (SITLSocket) is kept to its      *)
(* interface: connect succeeds or fails, read returns an error, nothing,   *)
(* or a prefix of the bytes the peer has sent.                             *)
(*                                                                         *)
(* Specifications: Spec has every operation over ASCII data; SpecRead and  *)
(* SpecBatch have the input operations over all byte values; SpecLog has   *)
(* the output log; SpecRoundTrip is simulateInput followed by reads;       *)
(* SpecLife adds begin, end and the destructor; SpecFlow follows the bytes *)
(* from the socket to read(); SpecClock has millis, micros, setMillis,     *)
(* resetMillis and the delays of the same file; SpecDelay follows the      *)
(* waiting loop of the delays step by step; SpecFed is a connected stream  *)
(* that is read again and again.                                           *)
(***************************************************************************)
EXTENDS Integers, Sequences, FiniteSets, TLC

\* sizeof(inputBuffer) and sizeof(fakeBuffer), scaled down.
InCap == 3
LogCap == 3
\* sizeof(tempBuffer) in pollSITLInput.
TempSize == 256
\* Most bytes the peer may have in flight towards the stream.
MaxPending == 2
\* Writes followed since construction or the last clearBuffer: LogCap + WriteSlack.
WriteSlack == 2

\* Byte values (bit patterns) used as data: an ASCII letter and 0xFF.
Byte == {65, 255}
\* Characters a null-terminated string can hold.
StrByte == Byte \ {0}

Min(a, b) == IF a < b THEN a ELSE b

\* The step of the system clock, in microseconds.
Quantum == 500
\* How long the program is followed, in milliseconds.
MaxElapsed == 4

\* Most bytes the peer sends while the flow of bytes through the stream is followed.
MaxFlow == 4

\* Microseconds in a millisecond: the factor 1000 of micros() and delay().
MicrosPerMilli == 1000

\* A uint64_t value hi * 2^48 + lo, with lo small enough for lo * 1000 to stay
\* below 2^48: hi is kept modulo 2^16, that is the value modulo 2^64.
HiWrap == 2 ^ 16
U64(hi, lo) == [hi |-> hi, lo |-> lo]
\* x * k in uint64_t arithmetic.
Times(x, k) == [hi |-> (x.hi * k) % HiWrap, lo |-> x.lo * k]

RECURSIVE SeqsUpTo(_, _)
SeqsUpTo(S, n) ==
    IF n = 0 THEN {<<>>}
    ELSE LET shorter == SeqsUpTo(S, n - 1)
         IN shorter \cup {Append(q, x) : q \in {t \in shorter : Len(t) = n - 1}, x \in S}

\* The strings handed to simulateInput: up to one character more than the buffer holds.
Strings == SeqsUpTo(StrByte, InCap + 1)

VARIABLES
    fakeBuffer,     \* char fakeBuffer[LogCap]
    cursor,         \* write position in fakeBuffer
    inputBuffer,    \* char inputBuffer[InCap]
    inputCursor,    \* next unread position
    inputLength,    \* number of buffered bytes
    sitlSocket,     \* "null" | "closed" (object, not connected) | "connected"
    rxPending,      \* bytes the peer has sent that the socket has not yet returned
    charSigned,     \* build: whether plain char is signed
    oobVictim,      \* build: what lies right behind inputBuffer
    op,             \* the operation that ran last
    arg,            \* its arguments
    ret,            \* its return value
    out,            \* what it copied into the caller's buffer
    sockCalls,      \* the socket calls it made, in order
    polled,         \* inputCursor/inputLength right after its (last) poll
    oob,            \* whether it stored a byte at inputBuffer[InCap]
    written,        \* bytes passed to write since construction / clearBuffer
    injected,       \* round trip: the string given to simulateInput
    got,            \* round trip: the values read() returned since then
    nowMicros,      \* the system clock, in microseconds
    start,          \* const uint64_t start: the clock in ms when the program started
    startMicros,    \* const uint64_t startMicros: the clock in us right after
    fakeMillis,     \* uint64_t fakeMillis
    useFakeMillis,  \* bool useFakeMillis
    lastSet,        \* the override in force: kind "set" with the value v of the last
                    \* setMillis, "reset" after a resetMillis, "none" before any
    arrived,        \* flow: the bytes the socket returned to the polls
    taken,          \* flow: the bytes read() returned
    spinUs,         \* spin_wait_us in progress: <<us>>, the wait asked for; else <<>>
    start_point     \* spin_wait_us: the clock when the wait began

stream == <<fakeBuffer, cursor, inputBuffer, inputCursor, inputLength>>
input == <<inputBuffer, inputCursor, inputLength>>
log == <<fakeBuffer, cursor>>
build == <<charSigned, oobVictim>>
hist == <<injected, got>>
spin == <<spinUs, start_point>>
clock == <<nowMicros, start, startMicros, fakeMillis, useFakeMillis, lastSet, spin>>
flow == <<arrived, taken>>
aside == <<hist, clock, flow>>
vars == <<fakeBuffer, cursor, inputBuffer, inputCursor, inputLength, sitlSocket,
          rxPending, charSigned, oobVictim, op, arg, ret, out, sockCalls, polled, oob,
          written, injected, got, nowMicros, start, startMicros, fakeMillis,
          useFakeMillis, lastSet, arrived, taken, spinUs, start_point>>

\* A byte stored into a char array, and a char read back through (uint8_t).
AsChar(b) == IF charSigned /\ b > 127 THEN b - 256 ELSE b
AsUint8(c) == IF c < 0 THEN c + 256 ELSE c

\* The byte behind the end of an int field's storage is its low byte.
ClearLowByte(x) == (x \div 256) * 256

\* SITLSocket::read(buf, n): r is what the transport has ready (-1: error).
SocketRead(rx, n, r) == IF r < 0 THEN -1 ELSE Min(r, Min(n, Len(rx)))

\* The input side as a value, threaded through the operators below.
In == [buf |-> inputBuffer, cur |-> inputCursor, len |-> inputLength,
       rx |-> rxPending, calls |-> <<>>, oob |-> FALSE]

isConnected == sitlSocket = "connected"

ResetIfDrained(s) ==
    IF s.cur >= s.len THEN [s EXCEPT !.cur = 0, !.len = 0] ELSE s

\* memcpy(inputBuffer + inputLength, tempBuffer, n); inputLength += n;
\* inputBuffer[inputLength] = '\0'
\* The socket read may fill all the room left, and then the terminator is stored at
\* inputBuffer[InCap], behind the array. What that byte belongs to depends on the
\* layout of the object: padding ("none"), or the first byte of one of the input
\* fields declared with the buffer.
AppendInput(s, n) ==
    LET newLen == s.len + n
        over == newLen >= InCap
    IN  [s EXCEPT
            !.buf = [i \in 0 .. InCap - 1 |->
                        IF i >= s.len /\ i < newLen THEN AsChar(s.rx[i - s.len + 1])
                        ELSE IF i = newLen THEN 0
                        ELSE s.buf[i]],
            !.len = IF over /\ oobVictim = "inputLength" THEN ClearLowByte(newLen)
                    ELSE newLen,
            !.cur = IF over /\ oobVictim = "inputCursor" THEN ClearLowByte(s.cur)
                    ELSE s.cur,
            !.rx = SubSeq(s.rx, n + 1, Len(s.rx)),
            !.oob = s.oob \/ over]

RoomAvailable(s) == InCap - s.len

pollSITLInput(s, r) ==
    IF ~isConnected THEN s
    ELSE LET t == ResetIfDrained(s)
             roomAvailable == RoomAvailable(t)
         IN  IF roomAvailable <= 0 THEN t
             ELSE LET want == Min(TempSize, roomAvailable)
                      bytesRead == SocketRead(t.rx, want, r)
                      u == [t EXCEPT !.calls = Append(t.calls, <<"read", want, bytesRead>>)]
                  IN  IF bytesRead > 0 THEN AppendInput(u, bytesRead) ELSE u

\* The byte returned as the char it is stored as.
ReadValueNoCast(s) == s.buf[s.cur]

\* return (uint8_t)inputBuffer[inputCursor]
ReadValue(s) == AsUint8(s.buf[s.cur])

\* read() with the cursor left where it was.
readOnStuck(s, r) ==
    LET p == pollSITLInput(s, r)
    IN  IF p.cur >= p.len THEN [s |-> p, ret |-> -1, p |-> p]
        ELSE [s |-> p, ret |-> AsUint8(p.buf[p.cur]), p |-> p]

readOn(s, r) ==
    LET p == pollSITLInput(s, r)
    IN  IF p.cur >= p.len THEN [s |-> p, ret |-> -1, p |-> p]
        ELSE [s |-> [p EXCEPT !.cur = p.cur + 1], ret |-> ReadValue(p), p |-> p]

PeekValue(p) == IF p.cur >= p.len THEN -1 ELSE AsUint8(p.buf[p.cur])

\* available() true on a drained buffer too.
HasUnreadOrDrained(p) == p.cur <= p.len

\* return inputCursor < inputLength
HasUnread(p) == p.cur < p.len

\* strlen(data) clamped to the size of the buffer.
CopyLengthWhole(data) == IF Len(data) >= InCap THEN InCap ELSE Len(data)

\* strlen(data) clamped to what the buffer holds beside the terminator.
CopyLength(data) == IF Len(data) >= InCap THEN InCap - 1 ELSE Len(data)

\* The body of readBytes: buffer is what has been copied so far (count = Len(buffer));
\* r is what the transport has ready at each read.
RECURSIVE readBytesOn(_, _, _, _)
readBytesOn(s, buffer, length, r) ==
    IF Len(buffer) >= length THEN [s |-> s, out |-> buffer]
    ELSE LET x == readOn(s, r)
         IN  IF x.ret < 0 THEN [s |-> x.s, out |-> buffer]
             ELSE readBytesOn(x.s, Append(buffer, AsChar(x.ret)), length, r)

\* c == terminator, with c an int in 0..255 and terminator a char promoted to int.
IsTerminator(c, terminator) == c = AsChar(terminator)

RECURSIVE readBytesUntilOn(_, _, _, _, _)
readBytesUntilOn(s, terminator, buffer, length, r) ==
    IF Len(buffer) >= length THEN [s |-> s, out |-> buffer]
    ELSE LET x == readOn(s, r)
         IN  IF x.ret < 0 THEN [s |-> x.s, out |-> buffer]
             ELSE IF IsTerminator(x.ret, terminator) THEN [s |-> x.s, out |-> buffer]
             ELSE readBytesUntilOn(x.s, terminator, Append(buffer, AsChar(x.ret)),
                                   length, r)

\* What the transport may have ready at a socket read: an error, nothing, some or
\* all of what the peer sent. Without a connection there is no socket read.
SockReady == IF isConnected THEN -1 .. MaxPending ELSE {0}
\* The same at every read of a batch: nothing, or all there is.
BatchReady == IF isConnected THEN {0, MaxPending} ELSE {0}

SetInput(s) ==
    /\ inputBuffer' = s.buf
    /\ inputCursor' = s.cur
    /\ inputLength' = s.len
    /\ rxPending' = s.rx
    /\ sockCalls' = s.calls
    /\ oob' = s.oob

Snapshot(s) == [cur |-> s.cur, len |-> s.len]

----------------------------------------------------------------------------
(* Stream operations *)

available(r) ==
    LET p == pollSITLInput(In, r)
    IN  /\ SetInput(p)
        /\ polled' = Snapshot(p)
        /\ op' = "available"
        /\ arg' = <<>>
        /\ ret' = HasUnread(p)
        /\ out' = <<>>
        /\ UNCHANGED <<log, sitlSocket, build>>

read(r) ==
    LET x == readOn(In, r)
    IN  /\ SetInput(x.s)
        /\ polled' = Snapshot(x.p)
        /\ op' = "read"
        /\ arg' = <<>>
        /\ ret' = x.ret
        /\ out' = <<>>
        /\ UNCHANGED <<log, sitlSocket, build>>

peek(r) ==
    LET p == pollSITLInput(In, r)
    IN  /\ SetInput(p)
        /\ polled' = Snapshot(p)
        /\ op' = "peek"
        /\ arg' = <<>>
        /\ ret' = PeekValue(p)
        /\ out' = <<>>
        /\ UNCHANGED <<log, sitlSocket, build>>

\* A null pointer given as data: no string holds a NUL character.
NullData == <<0>>

simulateInput(data) ==
    LET n == CopyLength(data)
    IN  /\ IF data = NullData
           THEN /\ UNCHANGED input
                /\ polled' = [cur |-> inputCursor, len |-> inputLength]
           ELSE /\ inputLength' = n
                /\ inputBuffer' = [i \in 0 .. InCap - 1 |->
                                      IF i < n THEN AsChar(data[i + 1])
                                      ELSE IF i = n THEN 0
                                      ELSE inputBuffer[i]]
                /\ inputCursor' = 0
                /\ polled' = [cur |-> 0, len |-> n]
        /\ op' = "simulateInput"
        /\ arg' = data
        /\ ret' = 0
        /\ out' = <<>>
        /\ sockCalls' = <<>>
        /\ oob' = FALSE
        /\ UNCHANGED <<log, sitlSocket, rxPending, build>>

readBytesUntil(terminator, length, r) ==
    LET x == IF length < 1 THEN [s |-> In, out |-> <<>>]
             ELSE readBytesUntilOn(In, terminator, <<>>, length, r)
    IN  /\ SetInput(x.s)
        /\ polled' = Snapshot(x.s)
        /\ op' = "readBytesUntil"
        /\ arg' = <<terminator, length>>
        /\ ret' = Len(x.out)
        /\ out' = x.out
        /\ UNCHANGED <<log, sitlSocket, build>>

readBytes(length, r) ==
    LET x == readBytesOn(In, <<>>, length, r)
    IN  /\ SetInput(x.s)
        /\ polled' = Snapshot(x.s)
        /\ op' = "readBytes"
        /\ arg' = <<length>>
        /\ ret' = Len(x.out)
        /\ out' = x.out
        /\ UNCHANGED <<log, sitlSocket, build>>

\* clearBuffer resetting the log only.
clearBufferLogOnly ==
    /\ cursor' = 0
    /\ fakeBuffer' = [fakeBuffer EXCEPT ![0] = 0]
    /\ polled' = [cur |-> inputCursor, len |-> inputLength]
    /\ op' = "clearBuffer"
    /\ arg' = <<>>
    /\ ret' = 0
    /\ out' = <<>>
    /\ sockCalls' = <<>>
    /\ oob' = FALSE
    /\ UNCHANGED <<input, sitlSocket, rxPending, build>>

clearBuffer ==
    /\ cursor' = 0
    /\ fakeBuffer' = [fakeBuffer EXCEPT ![0] = 0]
    /\ inputCursor' = 0
    /\ inputLength' = 0
    /\ inputBuffer' = [inputBuffer EXCEPT ![0] = 0]
    /\ polled' = [cur |-> 0, len |-> 0]
    /\ op' = "clearBuffer"
    /\ arg' = <<>>
    /\ ret' = 0
    /\ out' = <<>>
    /\ sockCalls' = <<>>
    /\ oob' = FALSE
    /\ UNCHANGED <<sitlSocket, rxPending, build>>

\* The last slot of the log taken for data too.
LogHasRoomNoTerminator == cursor < LogCap

\* if (cursor < sizeof(fakeBuffer) - 1)
LogHasRoom == cursor < LogCap - 1

\* write() reporting what the log took.
WriteResultStored == IF LogHasRoom THEN 1 ELSE 0

\* The value write() returns.
WriteResult == 1

\* The socket used whenever the object exists.
SendsToSocketUnchecked == sitlSocket # "null"

\* Only the bytes the log took sent on.
SendsToSocketIfStored == isConnected /\ LogHasRoom

\* if (sitlSocket && sitlSocket->isConnected())
SendsToSocket == isConnected

write(b) ==
    /\ IF LogHasRoom
       THEN /\ fakeBuffer' = [i \in 0 .. LogCap - 1 |->
                                 IF i = cursor THEN AsChar(b)
                                 ELSE IF i = cursor + 1 THEN 0
                                 ELSE fakeBuffer[i]]
            /\ cursor' = cursor + 1
       ELSE UNCHANGED log
    /\ sockCalls' = IF SendsToSocket THEN << <<"write", b, 1>> >> ELSE <<>>
    /\ op' = "write"
    /\ arg' = <<b>>
    /\ ret' = WriteResult
    /\ out' = <<>>
    /\ oob' = FALSE
    /\ polled' = [cur |-> inputCursor, len |-> inputLength]
    /\ UNCHANGED <<input, sitlSocket, rxPending, build>>

\* return sitlSocket && sitlSocket->isConnected()
isSITLConnected == sitlSocket # "null" /\ isConnected

\* connectSITL going straight to the new attempt.
DisconnectsFirstNever == FALSE

\* if (sitlSocket->isConnected()) sitlSocket->disconnect()
DisconnectsFirst == isConnected

\* The socket object as the connect attempt finds it: new or disconnected objects are
\* closed, any other is as it was.
BeforeAttempt == IF sitlSocket = "null" \/ DisconnectsFirst THEN "closed" ELSE sitlSocket

\* A failed attempt made a second time.
ConnectCallsRetry(ok) ==
    IF ok THEN << <<"connect", 0, 1>> >> ELSE << <<"connect", 0, 0>>, <<"connect", 0, 0>> >>

\* sitlSocket->connect(host, port), once; ok: whether it succeeds.
ConnectCalls(ok) == << <<"connect", 0, IF ok THEN 1 ELSE 0>> >>

\* connectSITL returning the opposite of what connect returned.
ConnectResultInverted(ok) == ~ok

\* return sitlSocket->connect(host, port)
ConnectResult(ok) == ok

connectSITL(ok) ==
    /\ sitlSocket' = IF ok THEN "connected" ELSE BeforeAttempt
    /\ rxPending' = IF ok \/ DisconnectsFirst THEN <<>> ELSE rxPending
    /\ sockCalls' = (IF sitlSocket = "null" THEN << <<"new", 0, 0>> >> ELSE <<>>)
                    \o (IF DisconnectsFirst THEN << <<"disconnect", 0, 0>> >> ELSE <<>>)
                    \o ConnectCalls(ok)
    /\ op' = "connectSITL"
    /\ arg' = <<>>
    /\ ret' = ConnectResult(ok)
    /\ out' = <<>>
    /\ oob' = FALSE
    /\ polled' = [cur |-> inputCursor, len |-> inputLength]
    /\ UNCHANGED <<stream, build>>

\* The socket disconnected and the object kept.
ReleaseSocketKept == IF sitlSocket = "null" THEN "null" ELSE "closed"

\* delete sitlSocket; sitlSocket = nullptr
ReleaseSocket == "null"

\* The body of disconnectSITL, run under the name of the operation that calls it.
disconnectAs(name) ==
    /\ sitlSocket' = ReleaseSocket
    /\ rxPending' = <<>>
    /\ sockCalls' = IF sitlSocket # "null"
                    THEN << <<"disconnect", 0, 0>>, <<"delete", 0, 0>> >> ELSE <<>>
    /\ op' = name
    /\ arg' = <<>>
    /\ ret' = 0
    /\ out' = <<>>
    /\ oob' = FALSE
    /\ polled' = [cur |-> inputCursor, len |-> inputLength]
    /\ UNCHANGED <<stream, build>>

disconnectSITL == disconnectAs("disconnectSITL")

\* void Stream::end() { disconnectSITL(); }
end == disconnectAs("end")

\* Stream::~Stream() { disconnectSITL(); }
destroy == disconnectAs("~Stream")

\* void Stream::begin(int baud) {}
begin(baud) ==
    /\ op' = "begin"
    /\ arg' = <<baud>>
    /\ ret' = 0
    /\ out' = <<>>
    /\ sockCalls' = <<>>
    /\ oob' = FALSE
    /\ polled' = [cur |-> inputCursor, len |-> inputLength]
    /\ UNCHANGED <<stream, sitlSocket, rxPending, build>>

----------------------------------------------------------------------------
(* The peer *)

\* The simulator sends one more byte.
PeerSend(b) ==
    /\ isConnected
    /\ Len(rxPending) < MaxPending
    /\ rxPending' = Append(rxPending, b)
    /\ op' = "peer"
    /\ arg' = <<>>
    /\ ret' = 0
    /\ out' = <<>>
    /\ sockCalls' = <<>>
    /\ oob' = FALSE
    /\ polled' = [cur |-> inputCursor, len |-> inputLength]
    /\ UNCHANGED <<stream, sitlSocket, build>>

\* The connection drops: the socket object stays and reports not connected.
PeerClose ==
    /\ isConnected
    /\ sitlSocket' = "closed"
    /\ rxPending' = <<>>
    /\ op' = "peer"
    /\ arg' = <<>>
    /\ ret' = 0
    /\ out' = <<>>
    /\ sockCalls' = <<>>
    /\ oob' = FALSE
    /\ polled' = [cur |-> inputCursor, len |-> inputLength]
    /\ UNCHANGED <<stream, build>>

----------------------------------------------------------------------------
(* The clock: millis, micros, setMillis, resetMillis, delay *)

\* What the clock operations leave alone.
streamSide == <<stream, sitlSocket, rxPending, build, out, sockCalls, polled, oob,
                written, hist, flow>>

\* The system clock in milliseconds.
NowMillis == nowMicros \div MicrosPerMilli

\* millis() always reading the real clock.
MillisValueReal == U64(0, NowMillis - start)

\* if (useFakeMillis) return fakeMillis; return now_ms - start
MillisValue == IF useFakeMillis THEN fakeMillis ELSE U64(0, NowMillis - start)

\* micros() returning the override value unscaled.
MicrosValueUnscaled ==
    IF useFakeMillis THEN fakeMillis ELSE U64(0, nowMicros - startMicros)

\* if (useFakeMillis) return fakeMillis * 1000; return now_us - startMicros
MicrosValue ==
    IF useFakeMillis THEN Times(fakeMillis, MicrosPerMilli)
    ELSE U64(0, nowMicros - startMicros)

millis ==
    /\ op' = "millis"
    /\ arg' = <<>>
    /\ ret' = MillisValue
    /\ UNCHANGED <<nowMicros, start, startMicros, fakeMillis, useFakeMillis, spin, streamSide>>

micros ==
    /\ op' = "micros"
    /\ arg' = <<>>
    /\ ret' = MicrosValue
    /\ UNCHANGED <<nowMicros, start, startMicros, fakeMillis, useFakeMillis, spin, streamSide>>

setMillis(ms) ==
    /\ fakeMillis' = ms
    /\ useFakeMillis' = TRUE
    /\ op' = "setMillis"
    /\ arg' = <<ms.hi, ms.lo>>
    /\ ret' = 0
    /\ UNCHANGED <<nowMicros, start, startMicros, spin, streamSide>>

\* resetMillis taking the current time as the new start.
resetMillisRestart ==
    /\ fakeMillis' = U64(0, 0)
    /\ useFakeMillis' = FALSE
    /\ start' = NowMillis
    /\ startMicros' = nowMicros
    /\ op' = "resetMillis"
    /\ arg' = <<>>
    /\ ret' = 0
    /\ UNCHANGED <<nowMicros, spin, streamSide>>

resetMillis ==
    /\ fakeMillis' = U64(0, 0)
    /\ useFakeMillis' = FALSE
    /\ op' = "resetMillis"
    /\ arg' = <<>>
    /\ ret' = 0
    /\ UNCHANGED <<nowMicros, start, startMicros, spin, streamSide>>

\* spin_wait_us(us): returns at the first look at the clock that finds us elapsed,
\* late being how long after that moment the look happens.
spin_wait_us(us, late) == nowMicros' = nowMicros + us + late

\* delay(int ms): if (ms <= 0) return; spin_wait_us(ms * 1000)
delay(ms, late) ==
    /\ IF ms <= 0 THEN UNCHANGED nowMicros
       ELSE spin_wait_us(ms * MicrosPerMilli, late)
    /\ op' = "delay"
    /\ arg' = <<ms>>
    /\ ret' = 0
    /\ UNCHANGED <<start, startMicros, fakeMillis, useFakeMillis, spin, streamSide>>

\* delayMicroseconds(unsigned int us)
delayMicroseconds(us, late) ==
    /\ spin_wait_us(us, late)
    /\ op' = "delayMicroseconds"
    /\ arg' = <<us>>
    /\ ret' = 0
    /\ UNCHANGED <<start, startMicros, fakeMillis, useFakeMillis, spin, streamSide>>

\* spin_wait_us step by step: the call takes start_point and enters the loop, each
\* iteration looks at the clock, and the call returns at the first look that finds the
\* condition false. An iteration that goes round again changes nothing.

\* static_cast<long long>(us) is negative.
AsLongLongNegative(us) == us.hi >= HiWrap \div 2

\* The wait measured on the overridden time.
ElapsedFrozen == IF useFakeMillis THEN 0 ELSE nowMicros - start_point

\* duration_cast<microseconds>(steady_clock::now() - start_point).count()
Elapsed == nowMicros - start_point

\* count() < static_cast<long long>(us)
StillWaiting(us) ==
    IF AsLongLongNegative(us) THEN FALSE
    ELSE IF us.hi > 0 THEN TRUE
    ELSE Elapsed < us.lo

\* A caller (name, with arguments a) enters spin_wait_us(us).
spinEnter(name, a, us) ==
    /\ spinUs' = <<us>>
    /\ start_point' = nowMicros
    /\ op' = name
    /\ arg' = a
    /\ ret' = 0
    /\ UNCHANGED <<nowMicros, start, startMicros, fakeMillis, useFakeMillis, streamSide>>

\* The loop ends and spin_wait_us, with it the delay, returns.
spinExit ==
    /\ spinUs # <<>>
    /\ ~StillWaiting(spinUs[1])
    /\ spinUs' = <<>>
    /\ op' = "spin_wait_us"
    /\ arg' = <<spinUs[1].hi, spinUs[1].lo>>
    /\ ret' = 0
    /\ UNCHANGED <<nowMicros, start, startMicros, fakeMillis, useFakeMillis, start_point,
                   streamSide>>

\* delay(int ms), step by step
delayInt(ms) ==
    IF ms <= 0
    THEN /\ op' = "delay"
         /\ arg' = <<ms>>
         /\ ret' = 0
         /\ UNCHANGED <<nowMicros, start, startMicros, fakeMillis, useFakeMillis, spin,
                        streamSide>>
    ELSE spinEnter("delay", <<ms>>, Times(U64(0, ms), MicrosPerMilli))

\* delay(unsigned long ms), step by step: static_cast<uint64_t>(ms) * 1000ULL
delayUnsigned(ms) ==
    spinEnter("delayUnsigned", <<ms.hi, ms.lo>>, Times(ms, MicrosPerMilli))

\* delayMicroseconds(unsigned int us), step by step
delayMicrosecondsEnter(us) == spinEnter("delayMicroseconds", <<us>>, U64(0, us))

\* Time passes while the program does something else.
Tick(d) ==
    /\ nowMicros' = nowMicros + d
    /\ op' = "tick"
    /\ arg' = <<>>
    /\ ret' = 0
    /\ UNCHANGED <<start, startMicros, fakeMillis, useFakeMillis, spin, streamSide>>

----------------------------------------------------------------------------

\* The stream on a build whose char signedness is one of signs, with empty buffers
\* and its socket as given.
InitStreamOn(signs, socket) ==
    /\ fakeBuffer = [i \in 0 .. LogCap - 1 |-> 0]
    /\ cursor = 0
    /\ inputBuffer = [i \in 0 .. InCap - 1 |-> 0]
    /\ inputCursor = 0
    /\ inputLength = 0
    /\ sitlSocket = socket
    /\ rxPending = <<>>
    /\ charSigned \in signs
    /\ oobVictim \in {"none", "inputCursor", "inputLength"}
    /\ op = "init"
    /\ arg = <<>>
    /\ ret = 0
    /\ out = <<>>
    /\ sockCalls = <<>>
    /\ polled = [cur |-> 0, len |-> 0]
    /\ oob = FALSE
    /\ written = <<>>
    /\ injected = <<>>
    /\ got = <<>>
    /\ arrived = <<>>
    /\ taken = <<>>

\* The stream as constructed.
InitStream(signs) == InitStreamOn(signs, "null")

\* The clock state after static initialisation, the program starting at one of epochs
\* (us): start and startMicros are taken from the clock, the override is off.
\* lags is how long after start startMicros may be taken.
InitClock(epochs, lags) ==
    /\ \E e \in epochs, lag \in lags :
            /\ start = e \div MicrosPerMilli
            /\ startMicros = e + lag
    /\ nowMicros = startMicros
    /\ fakeMillis = U64(0, 0)
    /\ useFakeMillis = FALSE
    /\ lastSet = [kind |-> "none", v |-> U64(0, 0)]
    /\ spinUs = <<>>
    /\ start_point = 0

InitOn(signs) == InitStream(signs) /\ InitClock({0}, {0})

Init == InitOn(BOOLEAN)

\* No byte above 127 is in play: the signedness of char makes no difference.
InitPlain == InitOn({TRUE})

MaxWrites == LogCap + WriteSlack

\* The byte used where the contents of the buffers are not the subject.
PlainBytes == {b \in Byte : b < 128}
PlainStrings == SeqsUpTo(PlainBytes, InCap + 1)

\* Strings that differ only in the characters a full buffer keeps.
ShortStrings == {s \in Strings : \A i \in 1 .. Len(s) : i >= InCap => s[i] \in PlainBytes}

\* Baud rates given to begin.
Bauds == {9600}

\* Requested lengths of readBytes / readBytesUntil.
Lengths == 0 .. InCap + 1

----------------------------------------------------------------------------
(* The operations as steps, with the histories they leave alone. *)

Available == \E r \in SockReady : available(r) /\ UNCHANGED <<written, aside>>
Read == \E r \in SockReady : read(r) /\ UNCHANGED <<written, aside>>
Peek == \E r \in SockReady : peek(r) /\ UNCHANGED <<written, aside>>
SimulateInput(S) == \E data \in S : simulateInput(data) /\ UNCHANGED <<written, aside>>
ReadBytesUntil(B) ==
    \E t \in B, n \in Lengths, r \in BatchReady :
        readBytesUntil(t, n, r) /\ UNCHANGED <<written, aside>>
ReadBytes == \E n \in Lengths, r \in BatchReady : readBytes(n, r) /\ UNCHANGED <<written, aside>>
ClearBuffer == clearBuffer /\ written' = <<>> /\ UNCHANGED aside
Write(B) ==
    \E b \in B : write(b) /\ written' = Append(written, b) /\ UNCHANGED aside
WriteAny(B) == \E b \in B : write(b) /\ UNCHANGED <<written, aside>>
ConnectSITL == \E ok \in BOOLEAN : connectSITL(ok) /\ UNCHANGED <<written, aside>>
DisconnectSITL == disconnectSITL /\ UNCHANGED <<written, aside>>
Begin == \E baud \in Bauds : begin(baud) /\ UNCHANGED <<written, aside>>
End == end /\ UNCHANGED <<written, aside>>
Destroy == destroy /\ UNCHANGED <<written, aside>>
Peer(B) ==
    \/ \E b \in B : PeerSend(b) /\ UNCHANGED <<written, aside>>
    \/ PeerClose /\ UNCHANGED <<written, aside>>

(* Every operation of the stream, with a socket, over one byte value. *)
Next ==
    \/ Available
    \/ Read
    \/ Peek
    \/ SimulateInput(PlainStrings)
    \/ ReadBytesUntil(PlainBytes)
    \/ ReadBytes
    \/ ClearBuffer
    \/ WriteAny(PlainBytes)
    \/ ConnectSITL
    \/ DisconnectSITL
    \/ Peer(PlainBytes)

Spec == InitPlain /\ [][Next]_vars

(* The single-byte input operations, with a socket, over all byte values. *)
NextRead ==
    \/ Available
    \/ Read
    \/ Peek
    \/ SimulateInput(ShortStrings)
    \/ ClearBuffer
    \/ ConnectSITL
    \/ DisconnectSITL
    \/ Peer(Byte)

SpecRead == Init /\ [][NextRead]_vars

(* The batch reads, with a socket, over all byte values. *)
NextBatch ==
    \/ SimulateInput(ShortStrings)
    \/ ReadBytesUntil(Byte)
    \/ ReadBytes
    \/ ConnectSITL
    \/ DisconnectSITL
    \/ Peer(Byte)

SpecBatch == Init /\ [][NextBatch]_vars

(* The output log, with a socket, over all byte values. *)
NextLog ==
    \/ Len(written) < MaxWrites /\ Write(Byte)
    \/ ClearBuffer
    \/ ConnectSITL
    \/ DisconnectSITL
    \/ Peer(PlainBytes)

SpecLog == Init /\ [][NextLog]_vars

(* The life of the stream and of its connection: every operation of the stream, then
   its destruction, after which nothing is called on it. *)
Alive == op # "~Stream"

\* What simulateInput is given here: a null pointer, a short string and one too long.
LifeStrings == {s \in PlainStrings : Len(s) \in {1, InCap + 1}} \cup {NullData}

\* The batch reads asked for as much as the buffer holds.
WholeUntil(B) ==
    \E t \in B, r \in BatchReady :
        readBytesUntil(t, InCap, r) /\ UNCHANGED <<written, aside>>
WholeBytes == \E r \in BatchReady : readBytes(InCap, r) /\ UNCHANGED <<written, aside>>

NextLife ==
    \/ Alive /\ Begin
    \/ Alive /\ ConnectSITL
    \/ Alive /\ DisconnectSITL
    \/ Alive /\ End
    \/ Alive /\ Destroy
    \/ Alive /\ Available
    \/ Alive /\ Read
    \/ Alive /\ Peek
    \/ Alive /\ SimulateInput(LifeStrings)
    \/ Alive /\ WholeUntil(PlainBytes)
    \/ Alive /\ WholeBytes
    \/ Alive /\ ClearBuffer
    \/ Alive /\ WriteAny(PlainBytes)
    \/ Alive /\ Peer(PlainBytes)

SpecLife == InitPlain /\ [][NextLife]_vars

(* The clock: the program starts at some time, the clock advances, and the time
   functions are called in any order. *)
Epochs == {3 * Quantum, 5 * Quantum}
Lags == {0, Quantum}
\* Override values: 0, 2 ms, and one above 2^64 / 1000 ms.
FakeTimes == {U64(0, 0), U64(0, 2), U64(HiWrap \div MicrosPerMilli + 1, 5)}
DelayTimes == {-1, 0, 1, 2}
Horizon == startMicros + MaxElapsed * MicrosPerMilli

InitTimed == InitStream({TRUE}) /\ oobVictim = "none" /\ InitClock(Epochs, Lags)

Millis == millis /\ UNCHANGED lastSet
Micros == micros /\ UNCHANGED lastSet
SetMillis == \E ms \in FakeTimes : setMillis(ms) /\ lastSet' = [kind |-> "set", v |-> ms]
ResetMillis == resetMillis /\ lastSet' = [kind |-> "reset", v |-> U64(0, 0)]
Delay ==
    \E ms \in DelayTimes, late \in Lags :
        delay(ms, late) /\ nowMicros' <= Horizon /\ UNCHANGED lastSet
DelayMicroseconds ==
    \E us \in {0, Quantum}, late \in Lags :
        delayMicroseconds(us, late) /\ nowMicros' <= Horizon /\ UNCHANGED lastSet
Pass == Tick(Quantum) /\ nowMicros' <= Horizon /\ UNCHANGED lastSet

NextClock ==
    \/ Millis
    \/ Micros
    \/ SetMillis
    \/ ResetMillis
    \/ Delay
    \/ DelayMicroseconds
    \/ Pass

SpecClock == InitTimed /\ [][NextClock]_vars

(* The delays step by step: the clock advances while a delay spins, and nothing else
   is called meanwhile. The loop keeps running and the clock keeps advancing. *)
Idle == spinUs = <<>>

\* Waits that end within the time followed, or at once.
InTime(us) ==
    \/ AsLongLongNegative(us)
    \/ us.hi = 0 /\ nowMicros + us.lo + Quantum <= Horizon

\* unsigned long durations: 0, 1 ms, and one whose thousandfold is 2^63 or more.
LongTimes == {U64(0, 0), U64(0, 1), U64(HiWrap \div (2 * MicrosPerMilli) + 1, 0)}

DelayInt ==
    \E ms \in DelayTimes :
        /\ InTime(Times(U64(0, IF ms <= 0 THEN 0 ELSE ms), MicrosPerMilli))
        /\ delayInt(ms)
        /\ UNCHANGED lastSet
DelayUnsigned ==
    \E ms \in LongTimes :
        InTime(Times(ms, MicrosPerMilli)) /\ delayUnsigned(ms) /\ UNCHANGED lastSet
DelayMicrosecondsEnter ==
    \E us \in {0, Quantum} :
        InTime(U64(0, us)) /\ delayMicrosecondsEnter(us) /\ UNCHANGED lastSet
SpinExit == spinExit /\ UNCHANGED lastSet

NextDelay ==
    \/ Idle /\ SetMillis
    \/ Idle /\ ResetMillis
    \/ Idle /\ DelayInt
    \/ Idle /\ DelayUnsigned
    \/ Idle /\ DelayMicrosecondsEnter
    \/ SpinExit
    \/ Pass

SpecDelay == InitTimed /\ [][NextDelay]_vars /\ WF_vars(Pass) /\ WF_vars(SpinExit)

(* The flow of bytes from the socket through the input buffer to read(): a stream
   on which neither simulateInput nor clearBuffer is called. *)

\* The bytes the socket returned to the polls of the step.
Arrivals == SubSeq(rxPending, 1, Len(rxPending) - Len(rxPending'))

FlowAvailable ==
    \E r \in SockReady :
        /\ available(r)
        /\ arrived' = arrived \o Arrivals
        /\ UNCHANGED <<taken, written, hist, clock>>

FlowPeek ==
    \E r \in SockReady :
        /\ peek(r)
        /\ arrived' = arrived \o Arrivals
        /\ UNCHANGED <<taken, written, hist, clock>>

FlowRead ==
    \E r \in SockReady :
        /\ read(r)
        /\ arrived' = arrived \o Arrivals
        /\ taken' = IF ret' >= 0 THEN Append(taken, ret') ELSE taken
        /\ UNCHANGED <<written, hist, clock>>

NextFlow ==
    \/ FlowAvailable
    \/ FlowPeek
    \/ FlowRead
    \/ ConnectSITL
    \/ DisconnectSITL
    \/ Len(arrived) + Len(rxPending) < MaxFlow /\ Peer(Byte)

SpecFlow == Init /\ [][NextFlow]_vars

(* A stream that has been connected right after its construction and stays
   connected, whose caller keeps calling read() and whose socket keeps delivering what
   the peer has sent. *)
InitFed == InitStreamOn({TRUE}, "connected") /\ InitClock({0}, {0})

Send(B) ==
    /\ Len(arrived) + Len(rxPending) < MaxFlow
    /\ \E b \in B : PeerSend(b) /\ UNCHANGED <<written, aside>>

\* A read() whose poll is given all the socket has.
FedRead ==
    /\ isConnected
    /\ read(MaxPending)
    /\ arrived' = arrived \o Arrivals
    /\ taken' = IF ret' >= 0 THEN Append(taken, ret') ELSE taken
    /\ UNCHANGED <<written, hist, clock>>

NextFed ==
    \/ Send(PlainBytes)
    \/ FlowPeek
    \/ FlowRead
    \/ FedRead

\* What a read() changes when it receives or returns a byte.
fed == <<input, rxPending, flow>>

SpecFed == InitFed /\ [][NextFed]_vars /\ WF_fed(FedRead)

(* simulateInput(s) followed by reads, without a socket. *)
ReadsAfter == Len(injected) + 2

Inject ==
    \E data \in Strings :
        /\ simulateInput(data)
        /\ injected' = data
        /\ got' = <<>>
        /\ UNCHANGED <<written, clock, flow>>

ReadBack ==
    /\ op \in {"simulateInput", "read"}
    /\ Len(got) < ReadsAfter
    /\ read(0)
    /\ got' = Append(got, ret')
    /\ UNCHANGED <<written, injected, clock, flow>>

NextRoundTrip == Inject \/ ReadBack

SpecRoundTrip == Init /\ [][NextRoundTrip]_vars

----------------------------------------------------------------------------
(* Properties *)

\* The unread input, as byte values.
Unread ==
    [i \in 1 .. (IF inputCursor < inputLength THEN inputLength - inputCursor ELSE 0) |->
        AsUint8(inputBuffer[inputCursor + i - 1])]

\* The log, as byte values.
Logged == [i \in 1 .. cursor |-> AsUint8(fakeBuffer[i - 1])]

\* C1: in every reachable state 0 <= inputCursor <= inputLength <= capacity - 1.
C1_InputBounds ==
    /\ 0 <= inputCursor
    /\ inputCursor <= inputLength
    /\ inputLength <= InCap - 1

\* C2 as stated: for every string s of length at most the capacity, simulateInput(s)
\* followed by reads returns the bytes of s in order and then -1.
C2_RoundTripUpToCapacity ==
    Len(injected) <= InCap =>
        \A i \in 1 .. Len(got) : got[i] = IF i <= Len(injected) THEN injected[i] ELSE -1

\* C2 amended: simulateInput(s) followed by reads returns the first
\* min(len(s), capacity - 1) bytes of s in order and then -1 on every read.
C2_RoundTrip ==
    \A i \in 1 .. Len(got) :
        got[i] = IF i <= Min(Len(injected), InCap - 1) THEN injected[i] ELSE -1

C2_Witness ==
    /\ Len(injected) = InCap - 1
    /\ Len(got) = Len(injected) + 2
    /\ got[1] = 255
    /\ got[Len(got)] = -1
    /\ charSigned

\* C3 as stated: write returns the number of bytes the call stored in the log.
C3_ReturnsStored == [][op' = "write" => ret' = cursor' - cursor]_vars

\* C3 amended: write returns 1 on every call, whether or not the byte was stored in
\* the log and whether or not it was sent over the socket.
C3_ReturnsOne == op = "write" => ret = 1

C3_Witness ==
    /\ op = "write"
    /\ ret = 1
    /\ Len(written) = LogCap
    /\ cursor = LogCap - 1
    /\ sitlSocket = "closed"

\* C4: after n writes since construction or the last clearBuffer the log holds the
\* first min(n, C-1) bytes written, in order, followed by a terminator; the cursor
\* never exceeds C-1 and every write returns 1.
C4_LogPrefix ==
    LET k == Min(Len(written), LogCap - 1)
    IN  /\ cursor = k
        /\ cursor <= LogCap - 1
        /\ Logged = SubSeq(written, 1, k)
        /\ fakeBuffer[cursor] = 0
        /\ (op = "write" => ret = 1)

C4_Witness ==
    /\ op = "write"
    /\ Len(written) = LogCap + 2
    /\ cursor = LogCap - 1
    /\ Logged = SubSeq(written, 1, LogCap - 1)
    /\ written[LogCap] = 255

\* C5 as stated: without a connected socket every write returns 1, appends its byte
\* to the log and makes no socket call.
C5_LocalWriteAppends ==
    [][(op' = "write" /\ sitlSocket # "connected") =>
            /\ ret' = 1
            /\ sockCalls' = <<>>
            /\ cursor' = cursor + 1
            /\ Logged' = Append(Logged, arg'[1])]_vars

\* C5 amended: without a connected socket every write returns 1, makes no socket
\* call, and appends its byte to the log unless the log already holds C-1 bytes,
\* in which case the log is left as it is.
C5_LocalWrite ==
    [][(op' = "write" /\ sitlSocket # "connected") =>
            /\ ret' = 1
            /\ sockCalls' = <<>>
            /\ IF cursor < LogCap - 1
               THEN cursor' = cursor + 1 /\ Logged' = Append(Logged, arg'[1])
               ELSE UNCHANGED log]_vars

C5_Witness ==
    /\ op = "write"
    /\ sitlSocket = "closed"
    /\ sockCalls = <<>>
    /\ ret = 1
    /\ cursor = Len(written)
    /\ cursor > 0
    /\ Logged[cursor] = arg[1]

\* C6: available() returns whether inputCursor < inputLength after its poll; without
\* a connected socket it changes no stream state, and once the input is consumed it
\* returns false until simulateInput is called again.
C6_Available ==
    [][/\ op' = "available" => ret' = (inputCursor' < inputLength')
       /\ (op' = "available" /\ sitlSocket # "connected") =>
              UNCHANGED <<stream, sitlSocket, rxPending>>
       /\ (/\ sitlSocket # "connected"
           /\ sitlSocket' # "connected"
           /\ inputCursor >= inputLength
           /\ op' # "simulateInput") =>
              /\ inputCursor' >= inputLength'
              /\ op' = "available" => ret' = FALSE]_vars

C6_Witness ==
    /\ op = "available"
    /\ ret = FALSE
    /\ sitlSocket = "null"
    /\ inputLength = InCap - 1
    /\ inputCursor = inputLength

\* C7: read() returns -1 exactly when no unread byte exists after its poll, and then
\* leaves inputCursor where the poll left it; otherwise it returns the byte at
\* inputCursor as a value in 0..255 and advances inputCursor by one.
C7_Read ==
    [][op' = "read" =>
          /\ ret' = -1 <=> polled'.cur >= polled'.len
          /\ ret' = -1 => inputCursor' = polled'.cur
          /\ ret' # -1 =>
                /\ ret' \in 0 .. 255
                /\ ret' = AsUint8(inputBuffer'[polled'.cur])
                /\ inputCursor' = polled'.cur + 1]_vars

C7_Witness ==
    /\ op = "read"
    /\ ret = 255
    /\ charSigned
    /\ sitlSocket = "connected"
    /\ sockCalls # <<>>
    /\ inputCursor = polled.cur + 1

Least(S) == CHOOSE i \in S : \A j \in S : i <= j

\* The bytes of a caller's buffer.
Bytes(buffer) == [i \in 1 .. Len(buffer) |-> AsUint8(buffer[i])]

\* C9: without arrivals from a socket, readBytesUntil(t, buf, n) copies the unread
\* bytes up to the first t among the first n (consuming that t, not copying it) and
\* returns their count; readBytes(buf, n) returns min(n, unread) and consumes as many.
C9_BatchReads ==
    [][/\ (op' = "readBytesUntil" /\ sitlSocket # "connected") =>
            LET n == arg'[2]
                hits == {i \in 1 .. Min(n, Len(Unread)) : Unread[i] = arg'[1]}
                copied == IF hits = {} THEN Min(n, Len(Unread)) ELSE Least(hits) - 1
                consumed == IF hits = {} THEN copied ELSE copied + 1
            IN  /\ ret' = copied
                /\ Bytes(out') = SubSeq(Unread, 1, copied)
                /\ inputCursor' = inputCursor + consumed
       /\ (op' = "readBytes" /\ sitlSocket # "connected") =>
            /\ ret' = Min(arg'[1], Len(Unread))
            /\ Bytes(out') = SubSeq(Unread, 1, ret')
            /\ inputCursor' = inputCursor + ret']_vars

\* The last operation's socket reads returned no byte.
NothingReceived ==
    \A i \in 1 .. Len(sockCalls) : sockCalls[i][1] = "read" => sockCalls[i][3] <= 0

\* C10 as stated: after clearBuffer() the log cursor, inputCursor and inputLength
\* are 0 and the next available() returns false, whatever the connection state.
C10_ClearThenNothing ==
    [][/\ op' = "clearBuffer" => cursor' = 0 /\ inputCursor' = 0 /\ inputLength' = 0
       /\ (op = "clearBuffer" /\ op' = "available") => ret' = FALSE]_vars

\* C10 amended: after clearBuffer() the log cursor, inputCursor and inputLength are
\* 0, and the next available() returns false unless its poll receives bytes from a
\* connected socket.
C10_ClearBuffer ==
    [][/\ op' = "clearBuffer" => cursor' = 0 /\ inputCursor' = 0 /\ inputLength' = 0
       /\ (op = "clearBuffer" /\ op' = "available" /\ NothingReceived') =>
              ret' = FALSE]_vars

C10_Witness ==
    /\ op = "clearBuffer"
    /\ cursor = 0
    /\ inputCursor = 0
    /\ inputLength = 0
    /\ fakeBuffer[1] # 0
    /\ inputBuffer[1] # 0
    /\ sitlSocket = "connected"
    /\ rxPending # <<>>

\* The positions of the calls of one kind among an operation's socket calls.
CallsOf(kind, calls) == {i \in 1 .. Len(calls) : calls[i][1] = kind}

\* C11: connectSITL on a connected stream disconnects the existing connection before
\* the new attempt starts, so that no attempt is made while a connection is open; it
\* returns the outcome of the new attempt, and when that fails the stream is left
\* not connected.
C11_Reconnect ==
    [][op' = "connectSITL" =>
          LET attempts == CallsOf("connect", sockCalls')
          IN  /\ attempts # {}
              /\ isSITLConnected =>
                    \A j \in attempts :
                        \E i \in CallsOf("disconnect", sockCalls') : i < j
              /\ ret' = (sockCalls'[Least(attempts)][3] = 1)
              /\ ret' = FALSE => ~isSITLConnected']_vars

C11_Witness ==
    /\ op = "connectSITL"
    /\ ret = FALSE
    /\ sockCalls = << <<"disconnect", 0, 0>>, <<"connect", 0, 0>> >>
    /\ sitlSocket = "closed"
    /\ ~isSITLConnected

\* C12: after disconnectSITL(), end() or the destruction of the stream, from any
\* connection state, the stream owns no socket object and isSITLConnected() is false;
\* with no socket object the call changes nothing and calls nothing.
C12_Release ==
    [][op' \in {"disconnectSITL", "end", "~Stream"} =>
          /\ sitlSocket' = "null"
          /\ ~isSITLConnected'
          /\ sitlSocket = "null" =>
                /\ sockCalls' = <<>>
                /\ UNCHANGED <<stream, sitlSocket, rxPending>>]_vars

C12_Witness ==
    /\ op = "~Stream"
    /\ sockCalls = << <<"disconnect", 0, 0>>, <<"delete", 0, 0>> >>
    /\ sitlSocket = "null"
    /\ ~isSITLConnected
    /\ inputCursor < inputLength
    /\ cursor > 0

\* The stream operations other than connectSITL, disconnectSITL and end.
LocalOps == {"write", "read", "peek", "available", "readBytes", "readBytesUntil",
             "simulateInput", "clearBuffer", "begin"}

\* C13: isSITLConnected() goes from false to true only across a connectSITL call that
\* returns true; no other operation of the stream makes it true, and it is true only
\* while a socket object exists and reports connected.
C13_ConnectedOnlyByConnect ==
    [][/\ (~isSITLConnected /\ isSITLConnected') => (op' = "connectSITL" /\ ret' = TRUE)
       /\ (op' \in LocalOps /\ ~isSITLConnected) => ~isSITLConnected'
       /\ isSITLConnected' => (sitlSocket' # "null" /\ sitlSocket' = "connected")]_vars

C13_Witness ==
    /\ op = "connectSITL"
    /\ ret = TRUE
    /\ isSITLConnected
    /\ sockCalls = << <<"new", 0, 0>>, <<"connect", 0, 1>> >>

\* C14: when the connection attempt fails, connectSITL returns false after a single
\* attempt, isSITLConnected() is false afterwards, and the output log and the input
\* buffer are as before the call; a write(byte) that follows returns 1 and affects
\* only the output log.
C14_FailedConnect ==
    [][/\ (op' = "connectSITL" /\ sockCalls'[Len(sockCalls')] = <<"connect", 0, 0>>) =>
              /\ ret' = FALSE
              /\ ~isSITLConnected'
              /\ UNCHANGED stream
              /\ Cardinality(CallsOf("connect", sockCalls')) = 1
       /\ (op = "connectSITL" /\ ret = FALSE /\ op' = "write") =>
              /\ ret' = 1
              /\ sockCalls' = <<>>
              /\ UNCHANGED <<input, sitlSocket, rxPending>>]_vars

C14_Witness ==
    /\ op = "connectSITL"
    /\ ret = FALSE
    /\ sockCalls = << <<"new", 0, 0>>, <<"connect", 0, 0>> >>
    /\ ~isSITLConnected
    /\ cursor > 0
    /\ inputCursor < inputLength

\* The override is in force, set to a value whose thousandfold is below 2^64.
OverrideSmall == lastSet.kind = "set" /\ lastSet.v.hi * 1000 < HiWrap

\* C15 as stated: after setMillis(v) every millis() returns v and every micros()
\* returns v * 1000, however much real time passes and whatever delays run, until
\* resetMillis or another setMillis is called.
C15_OverrideExact ==
    /\ (op = "millis" /\ lastSet.kind = "set") => ret = lastSet.v
    /\ (op = "micros" /\ lastSet.kind = "set") =>
          ret = [hi |-> lastSet.v.hi * 1000, lo |-> lastSet.v.lo * 1000]

\* C15 amended: after setMillis(v) every millis() returns v and every micros()
\* returns v * 1000 modulo 2^64, which is v * 1000 when that is below 2^64, however
\* much real time passes and whatever delays run, until resetMillis or another
\* setMillis is called.
C15_Override ==
    /\ (op = "millis" /\ lastSet.kind = "set") => ret = lastSet.v
    /\ (op = "micros" /\ lastSet.kind = "set") =>
          /\ ret.hi = (lastSet.v.hi * 1000) % HiWrap
          /\ ret.lo = lastSet.v.lo * 1000
    /\ (op = "micros" /\ OverrideSmall) =>
          ret = [hi |-> lastSet.v.hi * 1000, lo |-> lastSet.v.lo * 1000]

C15_Witness ==
    /\ op = "micros"
    /\ lastSet.kind = "set"
    /\ lastSet.v.hi * 1000 >= HiWrap
    /\ ret = [hi |-> (lastSet.v.hi * 1000) % HiWrap, lo |-> 5000]
    /\ nowMicros - startMicros > 2000

\* C16: setMillis and resetMillis never change the start timestamps; resetMillis
\* sets the override value to 0 and the override flag to false, and after it millis()
\* returns the current real time minus the original start.
C16_Reset ==
    [][/\ start' = start
       /\ startMicros' = startMicros
       /\ op' = "resetMillis" => (fakeMillis' = U64(0, 0) /\ useFakeMillis' = FALSE)
       /\ (op' = "millis" /\ lastSet.kind # "set") => ret' = U64(0, NowMillis - start)]_vars

C16_Witness ==
    /\ op = "millis"
    /\ lastSet.kind = "reset"
    /\ ret = U64(0, NowMillis - start)
    /\ ret.lo > 1
    /\ fakeMillis = U64(0, 0)
    /\ useFakeMillis = FALSE

LengthAtPoll == IF inputCursor >= inputLength THEN 0 ELSE inputLength

C19_WriteSends ==
    [][op' = "write" =>
          /\ isSITLConnected => sockCalls' = << <<"write", arg'[1], 1>> >>
          /\ IF cursor < LogCap - 1
             THEN cursor' = cursor + 1 /\ Logged' = Append(Logged, arg'[1])
             ELSE UNCHANGED log]_vars

C19_Witness ==
    /\ op = "write"
    /\ isSITLConnected
    /\ Len(written) = LogCap + 1
    /\ cursor = LogCap - 1
    /\ arg = <<255>>
    /\ sockCalls = << <<"write", 255, 1>> >>

\* C20: simulateInput(s), in any state, replaces the whole pending input: afterwards
\* inputCursor is 0, inputLength is the number of bytes copied, the first
\* min(len(s), capacity - 1) of s, the unread bytes are exactly those, and the output
\* log, the socket and the bytes in flight are as before.
C20_SimulateInputReplaces ==
    [][(op' = "simulateInput" /\ arg' # NullData) =>
          LET n == Min(Len(arg'), InCap - 1)
          IN  /\ inputCursor' = 0
              /\ inputLength' = n
              /\ Unread' = SubSeq(arg', 1, n)
              /\ UNCHANGED <<log, sitlSocket, rxPending>>]_vars

C20_Witness ==
    /\ op = "simulateInput"
    /\ Len(arg) = InCap + 1
    /\ inputCursor = 0
    /\ inputLength = InCap - 1
    /\ Unread = <<255, 65>>
    /\ isSITLConnected
    /\ rxPending # <<>>

\* The steps of a delay: entering or leaving the wait, or returning at once.
DelayStep ==
    \/ spinUs' # spinUs
    \/ op' \in {"delay", "delayUnsigned", "delayMicroseconds", "spin_wait_us"}

\* C21: a delay that has begun returns once the real clock has advanced by what was
\* asked for, also while the override is active; no step of a delay changes the
\* override value or flag; and delay(int ms) with ms <= 0 returns in the call itself,
\* without entering the wait and without the clock advancing.
C21_DelaysTerminate ==
    /\ [][/\ DelayStep => UNCHANGED <<fakeMillis, useFakeMillis>>
          /\ (op' = "delay" /\ arg'[1] <= 0) =>
                (spinUs' = <<>> /\ nowMicros' = nowMicros)]_vars
    /\ (spinUs # <<>>) ~> (spinUs = <<>>)

C21_Witness ==
    /\ op = "spin_wait_us"
    /\ spinUs = <<>>
    /\ arg = <<0, 2 * MicrosPerMilli>>
    /\ nowMicros - start_point >= 2 * MicrosPerMilli
    /\ useFakeMillis
    /\ fakeMillis = U64(0, 2)

\* C22: no operation writes outside its buffers: no byte is stored at
\* inputBuffer[capacity], the terminator index inputLength stays within
\* 0..capacity-1, and the log's terminator index cursor within 0..logCapacity-1.
C22_WritesInside ==
    /\ ~oob
    /\ inputLength \in 0 .. InCap - 1
    /\ cursor \in 0 .. LogCap - 1

====
